---------------------------- MODULE Spec2Model ----------------------------
(***************************************************************************)
(* Model of src/metrics/more_losses.py: the grouped ratio metrics WAPE and *)
(* BIAS, both thin configurations of _ratio_metric.                        *)
(*                                                                         *)
(* A table is a record [cols, rows]: cols is the ordered list of column    *)
(* names and rows a sequence of rows, each a function from column name to  *)
(* cell.  Group-key cells are integers.  Every other cell is a tagged      *)
(* record:                                                                 *)
(*    [tag |-> "null"]                 a missing value (None)              *)
(*    [tag |-> "num", n |-> a, d |-> b] the number a/b in lowest terms,    *)
(*                                      b > 0 (an integer has d = 1)       *)
(*    [tag |-> "nan"]                  float("nan")                        *)
(*    [tag |-> "inf", n |-> s]         +inf (s = 1) or -inf (s = -1)       *)
(* The float quotient of two small integers is kept as the exact fraction: *)
(* two such quotients are equal as floats exactly when the fractions are.  *)
(***************************************************************************)
EXTENDS Integers, Sequences, FiniteSets

VARIABLES df, columns, models, wape, bias, before

vars == <<df, columns, models, wape, bias, before>>

---------------------------------------------------------------------------
(* Bounds of the model *)

\* the largest number of rows of an input table
MaxRows == 2

\* the largest number of rows of an input table with a cutoff column
MaxKeyRows == 3

---------------------------------------------------------------------------
(* Cells *)

Null == [tag |-> "null"]

NaN == [tag |-> "nan"]

Inf(s) == [tag |-> "inf", n |-> s]

Frac(a, b) == [tag |-> "num", n |-> a, d |-> b]

Num(a) == Frac(a, 1)

is_null(v) == v.tag = "null"

IsNum(v) == v.tag = "num"

AbsInt(a) == IF a < 0 THEN -a ELSE a

RECURSIVE Gcd(_, _)
Gcd(a, b) == IF b = 0 THEN a ELSE Gcd(b, a % b)

\* target - prediction on integer cells; a null operand gives null
Sub(a, b) == IF is_null(a) \/ is_null(b) THEN Null ELSE Num(a.n - b.n)

\* Expr.abs(): null stays null
Abs(v) == IF is_null(v) THEN Null ELSE Num(AbsInt(v.n))

\* float division of two aggregated (integer) cells, the divisor possibly NaN
Div(a, b) ==
    IF ~IsNum(a) \/ ~IsNum(b) THEN NaN
    ELSE IF b.n = 0
         THEN (IF a.n = 0 THEN NaN ELSE IF a.n > 0 THEN Inf(1) ELSE Inf(-1))
         ELSE LET g == Gcd(AbsInt(a.n), AbsInt(b.n))
                  s == IF b.n < 0 THEN -1 ELSE 1
              IN  Frac((s * a.n) \div g, (s * b.n) \div g)

---------------------------------------------------------------------------
(* Column names *)

id_col == "unique_id"

target_col == "y"

cutoff_col == "cutoff"

\* f"__metric_{idx}_num" for idx = 0, 1
NumNames == <<"__metric_0_num", "__metric_1_num">>

\* f"__metric_{idx}_den" for idx = 0, 1
DenNames == <<"__metric_0_den", "__metric_1_den">>

\* idx is the 0-based position of enumerate(models)
num_name(idx) == NumNames[idx + 1]

den_name(idx) == DenNames[idx + 1]

Range(s) == {s[i] : i \in 1..Len(s)}

HasDuplicates(s) == \E i, j \in 1..Len(s) : i < j /\ s[i] = s[j]

\* _get_group_cols with the two grouping columns in the other order
GroupColsIdFirst(cols) ==
    IF cutoff_col \in Range(cols) THEN <<id_col, cutoff_col>> ELSE <<id_col>>

_get_group_cols(cols) ==
    IF cutoff_col \in Range(cols) THEN <<cutoff_col, id_col>> ELSE <<id_col>>

---------------------------------------------------------------------------
(* The expressions built per model (the loop of _ratio_metric) *)

\* ErrorExpr with the flag ignored: always the signed error
ErrorSigned(row, model, absolute_error) ==
    Sub(row[target_col], row[model])

\* ErrorExpr with the flag ignored: always the magnitude
ErrorAbsolute(row, model, absolute_error) ==
    Abs(Sub(row[target_col], row[model]))

\* ErrorExpr with the flag read the wrong way round
ErrorFlagInverted(row, model, absolute_error) ==
    IF absolute_error THEN Sub(row[target_col], row[model])
    ELSE Abs(Sub(row[target_col], row[model]))

\* error = target - model, in magnitude when absolute_error
ErrorExpr(row, model, absolute_error) ==
    LET error == Sub(row[target_col], row[model])
    IN  IF absolute_error THEN Abs(error) ELSE error

\* pred_not_null as a mask shared by all models: the row counts only when
\* no model is null in it
pred_all_not_null(row, model) ==
    ~is_null(row["m1"]) /\ ~is_null(row["m2"])

pred_not_null(row, model) == ~is_null(row[model])

\* when(pred_not_null).then(error).otherwise(None)
NumExpr(row, model, absolute_error) ==
    IF pred_not_null(row, model)
    THEN ErrorExpr(row, model, absolute_error)
    ELSE Null

\* DenExpr with the mask left out: only the numerator is masked
DenUnmasked(row, model) == row[target_col]

\* when(pred_not_null).then(col(target_col)).otherwise(None)
DenExpr(row, model) ==
    IF pred_not_null(row, model) THEN row[target_col] ELSE Null

\* the dict numerator_cols: a repeated model keeps the name of its last index
LastIndex(ms, model) ==
    CHOOSE i \in 1..Len(ms) :
        /\ ms[i] = model
        /\ \A j \in 1..Len(ms) : ms[j] = model => j <= i

numerator_cols(ms, model) == num_name(LastIndex(ms, model) - 1)

denominator_cols(ms, model) == den_name(LastIndex(ms, model) - 1)

\* the names of exprs, in the order they are appended
ExprNames(ms) ==
    [k \in 1..(2 * Len(ms)) |->
        IF k % 2 = 1 THEN num_name((k + 1) \div 2 - 1)
                     ELSE den_name(k \div 2 - 1)]

\* the table of the group columns and the expressions, evaluated on rows
ExprTable(rows, group_cols, ms, absolute_error) ==
    LET names == ExprNames(ms)
        cols  == group_cols \o names
        Cell(row, c) ==
            IF c \in Range(group_cols) THEN row[c]
            ELSE LET k == CHOOSE k \in 1..Len(names) : names[k] = c
                 IN  IF k % 2 = 1
                     THEN NumExpr(row, ms[(k + 1) \div 2], absolute_error)
                     ELSE DenExpr(row, ms[k \div 2])
    IN  [cols |-> cols,
         rows |-> [i \in 1..Len(rows) |->
                      [c \in Range(cols) |-> Cell(rows[i], c)]]]

\* SelectExprs that masks by filtering: a row with a null prediction is dropped
SelectCompleteRows(tbl, group_cols, ms, absolute_error) ==
    LET Complete(row) == \A i \in 1..Len(ms) : ~is_null(row[ms[i]])
    IN  ExprTable(SelectSeq(tbl.rows, Complete), group_cols, ms, absolute_error)

\* df.select(group_cols..., exprs...): every row is kept
SelectExprs(tbl, group_cols, ms, absolute_error) ==
    ExprTable(tbl.rows, group_cols, ms, absolute_error)

---------------------------------------------------------------------------
(* group_by(group_cols...).agg(nw.all().sum()) *)

\* the group key of a row, as a tuple in group-column order
Key(row, group_cols) == [i \in 1..Len(group_cols) |-> row[group_cols[i]]]

Keys(rows, group_cols) == {Key(rows[i], group_cols) : i \in 1..Len(rows)}

\* the orders in which a group-by may emit its groups: the engine fixes none
GroupOrders(rows, group_cols) ==
    LET ks == Keys(rows, group_cols)
        n  == Cardinality(ks)
    IN  {o \in [1..n -> ks] : \A i, j \in 1..n : i # j => o[i] # o[j]}

\* sum of column c over the rows of group k from row i on; nulls are skipped,
\* so a group whose cells are all null sums to 0
RECURSIVE SumFrom(_, _, _, _, _)
SumFrom(rows, group_cols, k, c, i) ==
    IF i > Len(rows) THEN 0
    ELSE LET v == rows[i][c]
             rest == SumFrom(rows, group_cols, k, c, i + 1)
         IN  IF Key(rows[i], group_cols) = k /\ ~is_null(v)
             THEN v.n + rest
             ELSE rest

\* one row per group key of tbl, emitted in the order the keys have in order
GroupBySum(tbl, group_cols, order) ==
    LET Present(k) == k \in Keys(tbl.rows, group_cols)
        groups == SelectSeq(order, Present)
        Pos(c) == CHOOSE p \in 1..Len(group_cols) : group_cols[p] = c
    IN  [cols |-> tbl.cols,
         rows |-> [g \in 1..Len(groups) |->
                      [c \in Range(tbl.cols) |->
                          IF c \in Range(group_cols)
                          THEN groups[g][Pos(c)]
                          ELSE Num(SumFrom(tbl.rows, group_cols, groups[g], c, 1))]]]

---------------------------------------------------------------------------
(* The ratio, the projection and the sort *)

\* _zero_to_nan that leaves a zero denominator in place
ZeroKept(v) == v

\* _zero_to_nan that replaces a zero denominator by one
ZeroToOne(v) == IF IsNum(v) /\ v.n = 0 THEN Num(1) ELSE v

\* when(series == 0).then(nan).otherwise(series)
_zero_to_nan(v) == IF IsNum(v) /\ v.n = 0 THEN NaN ELSE v

\* one cell of the final select: numerator / _zero_to_nan(denominator)
Ratio(row, ms, model) ==
    Div(row[numerator_cols(ms, model)],
        _zero_to_nan(row[denominator_cols(ms, model)]))

\* the names of the final select, in order
OutCols(group_cols, ms) == group_cols \o ms

\* aggregated.select(group_cols..., ratio.alias(model) for each model)
Project(tbl, group_cols, ms) ==
    LET cols == OutCols(group_cols, ms)
    IN  [cols |-> cols,
         rows |-> [i \in 1..Len(tbl.rows) |->
                      [c \in Range(cols) |->
                          IF c \in Range(group_cols) THEN tbl.rows[i][c]
                          ELSE Ratio(tbl.rows[i], ms, c)]]]

\* lexicographic comparison of two key tuples from component i on
RECURSIVE KeyLess(_, _, _)
KeyLess(a, b, i) ==
    IF i > Len(a) THEN FALSE
    ELSE IF a[i] < b[i] THEN TRUE
    ELSE IF a[i] > b[i] THEN FALSE
    ELSE KeyLess(a, b, i + 1)

\* insert row r into the sorted sequence s, after the rows that are not greater
RECURSIVE Insert(_, _, _)
Insert(s, r, group_cols) ==
    IF s = <<>> THEN <<r>>
    ELSE IF KeyLess(Key(r, group_cols), Key(Head(s), group_cols), 1)
         THEN <<r>> \o s
         ELSE <<Head(s)>> \o Insert(Tail(s), r, group_cols)

RECURSIVE SortRows(_, _)
SortRows(rows, group_cols) ==
    IF rows = <<>> THEN <<>>
    ELSE Insert(SortRows(SubSeq(rows, 1, Len(rows) - 1), group_cols),
                rows[Len(rows)], group_cols)

\* Sort that leaves the rows in the order of the group-by
Unsorted(tbl, group_cols) == tbl

\* .sort(group_cols...)
Sort(tbl, group_cols) ==
    [cols |-> tbl.cols, rows |-> SortRows(tbl.rows, group_cols)]

---------------------------------------------------------------------------
(* Results *)

NotCalled == [status |-> "none", cols |-> <<>>, rows |-> <<>>]

\* a select whose output names repeat is refused by the dataframe layer
DuplicateError == [status |-> "DuplicateError", cols |-> <<>>, rows |-> <<>>]

Returned(tbl) == [status |-> "ok", cols |-> tbl.cols, rows |-> tbl.rows]

\* _ratio_metric on table tbl with columns cols; order is the order in which
\* the group-by emits the groups
_ratio_metric(tbl, cols, ms, absolute_error, order) ==
    LET group_cols == _get_group_cols(cols)
        selected   == SelectExprs([cols |-> cols, rows |-> tbl],
                                  group_cols, ms, absolute_error)
        aggregated == GroupBySum(selected, group_cols, order)
    IN  IF HasDuplicates(OutCols(group_cols, ms))
        THEN DuplicateError
        ELSE Returned(Sort(Project(aggregated, group_cols, ms), group_cols))

---------------------------------------------------------------------------
(* Inputs *)

\* the model lists a caller passes: empty, one, two in either order, one twice
ModelLists ==
    {<<>>, <<"m1">>, <<"m2">>, <<"m1", "m2">>, <<"m2", "m1">>, <<"m1", "m1">>}

PlainColumns == <<"unique_id", "y", "m1", "m2">>

CutoffColumns == <<"cutoff", "unique_id", "y", "m1", "m2">>

Ids == {1, 2}

Cutoffs == {1, 2}

\* rows of a table without cutoff column: a wide choice of actuals and
\* predictions (negative actuals are valid input)
ValueRows ==
    [unique_id : Ids, y : {Num(-1), Num(1), Num(2)},
     m1 : {Null, Num(0), Num(3)}, m2 : {Null}]
    \cup
    [unique_id : {1}, y : {Num(2)},
     m1 : {Null, Num(3)}, m2 : {Num(1)}]

\* rows of a table with cutoff column: a wide choice of keys
KeyRows ==
    [cutoff : Cutoffs, unique_id : Ids, y : {Num(1)},
     m1 : {Null, Num(0)}, m2 : {Null}]

\* rows of the table of a session that evaluates, changes one thing and
\* evaluates again
PairRows ==
    [unique_id : Ids, y : {Num(-1), Num(1)},
     m1 : {Null, Num(0), Num(3)}, m2 : {Null}]

\* the predictions a caller writes into a cell
NewPredictions == {Null, Num(1)}

SeqsUpTo(S, n) == UNION {[1..k -> S] : k \in 0..n}

---------------------------------------------------------------------------
(* State *)

\* no evaluation kept for comparison yet
NoSnapshot ==
    [taken |-> FALSE, df |-> <<>>, models |-> <<>>,
     wape |-> NotCalled, bias |-> NotCalled]

Snapshot ==
    [taken |-> TRUE, df |-> df, models |-> models,
     wape |-> wape, bias |-> bias]

Init ==
    /\ \/ columns = PlainColumns  /\ df \in SeqsUpTo(ValueRows, MaxRows)
       \/ columns = CutoffColumns /\ df \in SeqsUpTo(KeyRows, MaxKeyRows)
    /\ models \in ModelLists
    /\ wape = NotCalled
    /\ bias = NotCalled
    /\ before = NoSnapshot

InitPair ==
    /\ columns = PlainColumns
    /\ df \in SeqsUpTo(PairRows, MaxRows)
    /\ models \in {<<"m1">>, <<"m1", "m2">>}
    /\ wape = NotCalled
    /\ bias = NotCalled
    /\ before = NoSnapshot

---------------------------------------------------------------------------
(* The public metrics *)

\* WAPE(df, models): _ratio_metric with absolute_error = True
WAPE ==
    /\ wape = NotCalled
    /\ \E order \in GroupOrders(df, _get_group_cols(columns)) :
          wape' = _ratio_metric(df, columns, models, TRUE, order)
    /\ UNCHANGED <<df, columns, models, bias, before>>

\* BIAS(df, models): _ratio_metric with absolute_error = False
BIAS ==
    /\ bias = NotCalled
    /\ \E order \in GroupOrders(df, _get_group_cols(columns)) :
          bias' = _ratio_metric(df, columns, models, FALSE, order)
    /\ UNCHANGED <<df, columns, models, wape, before>>

---------------------------------------------------------------------------
(* The caller between two evaluations: both metrics are kept, one thing of  *)
(* the input is changed, and both metrics are evaluated again               *)

Evaluated == wape # NotCalled /\ bias # NotCalled /\ ~before.taken

\* the caller overwrites one prediction
SetPrediction ==
    /\ Evaluated
    /\ \E i \in 1..Len(df), m \in {"m1", "m2"}, v \in NewPredictions :
          /\ df[i][m] # v
          /\ df' = [df EXCEPT ![i][m] = v]
    /\ before' = Snapshot
    /\ wape' = NotCalled
    /\ bias' = NotCalled
    /\ UNCHANGED <<columns, models>>

\* every prediction p of the row becomes 2 * target - p; null stays null
ReflectRow(row) ==
    [c \in DOMAIN row |->
        IF c \in {"m1", "m2"} /\ ~is_null(row[c])
        THEN Num(2 * row[target_col].n - row[c].n)
        ELSE row[c]]

\* the caller mirrors every prediction around its actual
ReflectPredictions ==
    /\ Evaluated
    /\ df' = [i \in 1..Len(df) |-> ReflectRow(df[i])]
    /\ before' = Snapshot
    /\ wape' = NotCalled
    /\ bias' = NotCalled
    /\ UNCHANGED <<columns, models>>

\* the caller passes another model list
SetModels ==
    /\ Evaluated
    /\ \E ms \in ModelLists : ms # models /\ models' = ms
    /\ before' = Snapshot
    /\ wape' = NotCalled
    /\ bias' = NotCalled
    /\ UNCHANGED <<df, columns>>

---------------------------------------------------------------------------
(* Specifications *)

\* one evaluation of both metrics on one input
Next == WAPE \/ BIAS

Spec == Init /\ [][Next]_vars

\* two evaluations, the input changed once in between
NextPair == WAPE \/ BIAS \/ SetPrediction \/ ReflectPredictions \/ SetModels

SpecPair == InitPair /\ [][NextPair]_vars

---------------------------------------------------------------------------
(* What the claims speak of, stated from the input table alone *)

\* the grouping columns the rule of the specification gives
SpecGroupCols ==
    IF "cutoff" \in Range(columns) THEN <<"cutoff", "unique_id">>
    ELSE <<"unique_id">>

RowKey(row) == [i \in 1..Len(SpecGroupCols) |-> row[SpecGroupCols[i]]]

InputKeys(tbl) == {RowKey(tbl[i]) : i \in 1..Len(tbl)}

\* the rows of group k
GroupRows(tbl, k) == {i \in 1..Len(tbl) : RowKey(tbl[i]) = k}

\* the rows of group k in which model m made a prediction
MaskedRows(tbl, k, m) == {i \in GroupRows(tbl, k) : tbl[i][m].tag # "null"}

Term(row, m, kind) ==
    IF kind = "actual" THEN row["y"].n
    ELSE IF kind = "signed" THEN row["y"].n - row[m].n
    ELSE AbsInt(row["y"].n - row[m].n)

RECURSIVE SumOver(_, _, _, _)
SumOver(S, tbl, m, kind) ==
    IF S = {} THEN 0
    ELSE LET i == CHOOSE i \in S : TRUE
         IN  Term(tbl[i], m, kind) + SumOver(S \ {i}, tbl, m, kind)

\* N: the summed error of m over its rows of group k
SumError(tbl, k, m, absolute) ==
    SumOver(MaskedRows(tbl, k, m), tbl, m, IF absolute THEN "abs" ELSE "signed")

\* D: the summed actual over the same rows
SumActual(tbl, k, m) == SumOver(MaskedRows(tbl, k, m), tbl, m, "actual")

\* the sum of the actual over all rows of group k
GroupActual(tbl, k) == SumOver(GroupRows(tbl, k), tbl, "m1", "actual")

\* cell is the quotient n / d, undefined when d = 0
IsQuotient(cell, n, d) ==
    IF d = 0 THEN cell = NaN
    ELSE cell.tag = "num" /\ cell.d > 0 /\ cell.n * d = n * cell.d

Ok(res) == res.status = "ok"

ResultKey(res, i) == RowKey(res.rows[i])

\* -cell; undefined stays undefined
Neg(cell) == IF cell.tag = "num" THEN Frac(-cell.n, cell.d) ELSE cell

\* what one metric returned agrees, cell by cell, with sum-then-divide
SumThenDivide(res, absolute) ==
    Ok(res) =>
        /\ \A k \in InputKeys(df) : \E i \in 1..Len(res.rows) : ResultKey(res, i) = k
        /\ \A i \in 1..Len(res.rows) : \A m \in Range(models) :
              IsQuotient(res.rows[i][m],
                         SumError(df, ResultKey(res, i), m, absolute),
                         SumActual(df, ResultKey(res, i), m))

\* C1: every cell of WAPE and of BIAS is N / D by sum-then-divide, N the
\* summed (absolute or signed) error and D the summed actual over exactly
\* the rows of the group in which the model is non-null; where D = 0 the
\* quotient does not exist and the cell is undefined.
C1_SumThenDivide == SumThenDivide(wape, TRUE) /\ SumThenDivide(bias, FALSE)

\* a WAPE cell over two rows with predictions whose value differs from the
\* average of the two per-row ratios e1/y1 and e2/y2
C1_Witness ==
    /\ Ok(wape)
    /\ \E r \in 1..Len(wape.rows) : \E m \in Range(models) :
       \E i, j \in MaskedRows(df, ResultKey(wape, r), m) :
          LET c  == wape.rows[r][m]
              e1 == Term(df[i], m, "abs")
              e2 == Term(df[j], m, "abs")
              y1 == df[i]["y"].n
              y2 == df[j]["y"].n
          IN  /\ i # j
              /\ c.tag = "num"
              /\ c.n * (2 * y1 * y2) # (e1 * y2 + e2 * y1) * c.d

UndefinedOnZeroGroupSum(res) ==
    Ok(res) =>
        \A i \in 1..Len(res.rows) : \A m \in Range(models) :
            GroupActual(df, ResultKey(res, i)) = 0 => res.rows[i][m] = NaN

\* C2 as claimed: if the actuals of all rows of a group sum to zero, every
\* model's cell of that group is undefined, also when a model is null in
\* part of the rows.
C2_AsClaimed == UndefinedOnZeroGroupSum(wape) /\ UndefinedOnZeroGroupSum(bias)

UndefinedOnZeroMaskedSum(res) ==
    Ok(res) =>
        \A i \in 1..Len(res.rows) : \A m \in Range(models) :
            SumActual(df, ResultKey(res, i), m) = 0 => res.rows[i][m] = NaN

\* C2 amended: if the actuals of the rows of a group in which the model is
\* non-null sum to zero, the model's cell of that group is undefined (NaN),
\* neither infinite nor a finite number.
C2_UndefinedOnZeroMaskedSum ==
    UndefinedOnZeroMaskedSum(wape) /\ UndefinedOnZeroMaskedSum(bias)

\* a group with predictions whose actuals cancel while the errors do not:
\* a division would give an infinite value
C2_Witness ==
    /\ Ok(wape) /\ Ok(bias)
    /\ \E r \in 1..Len(wape.rows) : \E m \in Range(models) :
          /\ MaskedRows(df, ResultKey(wape, r), m) # {}
          /\ SumActual(df, ResultKey(wape, r), m) = 0
          /\ SumError(df, ResultKey(wape, r), m, TRUE) # 0
          /\ SumError(df, ResultKey(bias, r), m, FALSE) # 0
          /\ wape.rows[r][m] = NaN
          /\ bias.rows[r][m] = NaN

UndefinedWhenAllNull(res) ==
    Ok(res) =>
        \A i \in 1..Len(res.rows) : \A m \in Range(models) :
            MaskedRows(df, ResultKey(res, i), m) = {} => res.rows[i][m] = NaN

\* C3: a model that is null in every row of a group has an undefined cell
\* for that group, never zero, in WAPE and in BIAS.
C3_UndefinedWhenAllNull == UndefinedWhenAllNull(wape) /\ UndefinedWhenAllNull(bias)

\* a group of two rows in which one model is null throughout and the other
\* model has a defined cell
C3_Witness ==
    /\ Ok(wape) /\ Ok(bias)
    /\ \E r \in 1..Len(wape.rows) : \E m, o \in Range(models) :
          /\ Cardinality(GroupRows(df, ResultKey(wape, r))) = 2
          /\ MaskedRows(df, ResultKey(wape, r), m) = {}
          /\ wape.rows[r][m] = NaN
          /\ bias.rows[r][m] = NaN
          /\ wape.rows[r][o].tag = "num"

\* C4 as claimed: every defined WAPE cell is >= 0.
C4_AsClaimed ==
    Ok(wape) =>
        \A i \in 1..Len(wape.rows) : \A m \in Range(models) :
            wape.rows[i][m].tag = "num" => wape.rows[i][m].n >= 0

\* C4 amended: a defined WAPE cell is >= 0 whenever the summed actual of the
\* model's rows of the group is positive (and <= 0 when that sum is
\* negative).
C4_SignOfDenominator ==
    Ok(wape) =>
        \A i \in 1..Len(wape.rows) : \A m \in Range(models) :
            LET c == wape.rows[i][m]
                d == SumActual(df, ResultKey(wape, i), m)
            IN  c.tag = "num" =>
                    /\ d > 0 => c.n >= 0
                    /\ d < 0 => c.n <= 0

\* a group with a positive summed actual in which the signed errors sum
\* below zero: the WAPE cell is positive, the BIAS cell negative
C4_Witness ==
    /\ Ok(wape) /\ Ok(bias)
    /\ \E r \in 1..Len(wape.rows) : \E m \in Range(models) :
          /\ SumActual(df, ResultKey(wape, r), m) > 0
          /\ wape.rows[r][m].tag = "num" /\ wape.rows[r][m].n > 0
          /\ bias.rows[r][m].tag = "num" /\ bias.rows[r][m].n < 0

OneRowPerGroup(res) ==
    Ok(res) =>
        /\ Len(res.rows) = Cardinality(InputKeys(df))
        /\ \A k \in InputKeys(df) :
              Cardinality({i \in 1..Len(res.rows) : ResultKey(res, i) = k}) = 1

\* C5: the result of WAPE and of BIAS has as many rows as the input has
\* distinct group keys, each key in exactly one row, the groups with
\* undefined cells included.
C5_OneRowPerGroup == OneRowPerGroup(wape) /\ OneRowPerGroup(bias)

\* fewer groups than rows, more than one group, and a group whose cell is
\* undefined because its model is null throughout
C5_Witness ==
    /\ Ok(wape) /\ Ok(bias)
    /\ Len(wape.rows) >= 2
    /\ Len(wape.rows) < Len(df)
    /\ Len(bias.rows) = Len(wape.rows)
    /\ \E r \in 1..Len(wape.rows) : \E m \in Range(models) :
          /\ MaskedRows(df, ResultKey(wape, r), m) = {}
          /\ wape.rows[r][m] = NaN

\* a < b in the lexicographic order of key tuples of one or two components
LexLess(a, b) ==
    \/ a[1] < b[1]
    \/ Len(a) = 2 /\ a[1] = b[1] /\ a[2] < b[2]

StrictlyAscending(res) ==
    Ok(res) =>
        \A i \in 1..(Len(res.rows) - 1) :
            LexLess(ResultKey(res, i), ResultKey(res, i + 1))

\* C6: the rows of the result of WAPE and of BIAS are strictly ascending in
\* the group-key tuple, compared lexicographically (cutoff first, then id),
\* whatever the order of the input rows.
C6_StrictlyAscending == StrictlyAscending(wape) /\ StrictlyAscending(bias)

\* an input with cutoff column whose rows come in descending key order, with
\* two keys that the id alone would order the other way round
C6_Witness ==
    /\ Ok(wape) /\ Ok(bias)
    /\ "cutoff" \in Range(columns)
    /\ Len(wape.rows) = 3
    /\ Len(df) = 3
    /\ LexLess(RowKey(df[3]), RowKey(df[2]))
    /\ LexLess(RowKey(df[2]), RowKey(df[1]))
    /\ \E i, j \in 1..3 :
          /\ LexLess(ResultKey(wape, i), ResultKey(wape, j))
          /\ wape.rows[i]["unique_id"] > wape.rows[j]["unique_id"]

\* two tables agree on the group keys, the actuals and the column of m
AgreeOn(t1, t2, m) ==
    /\ Len(t1) = Len(t2)
    /\ \A i \in 1..Len(t1) :
          /\ RowKey(t1[i]) = RowKey(t2[i])
          /\ t1[i]["y"] = t2[i]["y"]
          /\ t1[i][m] = t2[i][m]

SameCells(r1, r2, m) ==
    (Ok(r1) /\ Ok(r2)) =>
        /\ Len(r1.rows) = Len(r2.rows)
        /\ \A i \in 1..Len(r1.rows) :
              /\ ResultKey(r1, i) = ResultKey(r2, i)
              /\ r1.rows[i][m] = r2.rows[i][m]

\* C7: for two inputs that agree on the group keys, the actuals and the
\* column of model m, the cells of m are the same in every group, whatever
\* the other model columns hold and wherever m stands in the model list.
C7_PerModelIndependence ==
    before.taken =>
        \A m \in Range(before.models) \cap Range(models) :
            AgreeOn(before.df, df, m) =>
                /\ SameCells(before.wape, wape, m)
                /\ SameCells(before.bias, bias, m)

\* model m1 evaluated before and after a prediction of m2 changed, m2's own
\* cell having changed with it
C7_Witness ==
    /\ before.taken
    /\ before.models = <<"m1", "m2">> /\ models = <<"m1", "m2">>
    /\ Ok(before.wape) /\ Ok(wape) /\ Ok(before.bias) /\ Ok(bias)
    /\ AgreeOn(before.df, df, "m1")
    /\ \E r \in 1..Len(wape.rows) :
          /\ wape.rows[r]["m1"].tag = "num"
          /\ wape.rows[r]["m2"] # before.wape.rows[r]["m2"]
          /\ wape.rows[r]["m1"] = before.wape.rows[r]["m1"]

\* t2 is t1 with every non-null prediction p replaced by 2 * actual - p
Reflected(t1, t2) ==
    /\ Len(t1) = Len(t2)
    /\ \A i \in 1..Len(t1) :
          /\ RowKey(t1[i]) = RowKey(t2[i])
          /\ t1[i]["y"] = t2[i]["y"]
          /\ \A m \in {"m1", "m2"} :
                IF t1[i][m].tag = "null" THEN t2[i][m].tag = "null"
                ELSE /\ t2[i][m].tag = "num"
                     /\ t2[i][m].n = 2 * t1[i]["y"].n - t1[i][m].n

\* C8: BIAS is sign-symmetric: when every non-null prediction is mirrored
\* around its actual, every BIAS cell is negated, and it is undefined after
\* exactly when it was undefined before.
C8_BiasSignSymmetric ==
    (/\ before.taken
     /\ before.models = models
     /\ Reflected(before.df, df)
     /\ Ok(before.bias) /\ Ok(bias)) =>
        /\ Len(bias.rows) = Len(before.bias.rows)
        /\ \A i \in 1..Len(bias.rows) : \A m \in Range(models) :
              /\ ResultKey(bias, i) = ResultKey(before.bias, i)
              /\ bias.rows[i][m] = Neg(before.bias.rows[i][m])
              /\ (bias.rows[i][m] = NaN) <=> (before.bias.rows[i][m] = NaN)

\* a mirrored table with one group of non-zero bias and one group of
\* undefined bias
C8_Witness ==
    /\ before.taken
    /\ before.models = models
    /\ Reflected(before.df, df)
    /\ df # before.df
    /\ Ok(before.bias) /\ Ok(bias)
    /\ \E i, j \in 1..Len(bias.rows) : \E m \in Range(models) :
          /\ bias.rows[i][m].tag = "num"
          /\ bias.rows[i][m].n # 0
          /\ before.bias.rows[i][m].tag = "num"
          /\ before.bias.rows[i][m].n = -bias.rows[i][m].n
          /\ bias.rows[j][m] = NaN

Called(res) == res # NotCalled

ColumnsAsClaimed(res) ==
    Called(res) =>
        /\ Ok(res)
        /\ res.cols = SpecGroupCols \o models
        /\ \A i \in 1..Len(res.rows) : DOMAIN res.rows[i] = Range(res.cols)

\* C9 as claimed: for every input, also an empty model list or one naming a
\* column twice, the columns of the result are the grouping columns followed
\* by one column per entry of the model list, in its order.
C9_AsClaimed == ColumnsAsClaimed(wape) /\ ColumnsAsClaimed(bias)

ColumnsOfResult(res) ==
    Called(res) =>
        IF HasDuplicates(models)
        THEN res.status = "DuplicateError"
        ELSE /\ Ok(res)
             /\ res.cols = SpecGroupCols \o models
             /\ \A i \in 1..Len(res.rows) :
                   DOMAIN res.rows[i] = Range(res.cols)

\* C9 amended: for every input whose model list names no column twice (the
\* empty list included), the columns of the result are the grouping columns
\* ([cutoff, id] when the input has a cutoff column, [id] otherwise)
\* followed by one column per model in the order of the list, and no
\* internal column; a list naming a column twice is refused with a
\* duplicate-column error.
C9_ColumnsOfResult == ColumnsOfResult(wape) /\ ColumnsOfResult(bias)

\* an input with cutoff column and the two models in the order m2, m1
C9_Witness ==
    /\ Ok(wape) /\ Ok(bias)
    /\ models = <<"m2", "m1">>
    /\ wape.cols = <<"cutoff", "unique_id", "m2", "m1">>
    /\ bias.cols = wape.cols
    /\ Len(wape.rows) >= 2

\* C10: a WAPE cell is defined exactly when the BIAS cell of the same input,
\* group and model is, and then the magnitude of the BIAS cell is at most
\* that of the WAPE cell.
C10_BiasWithinWape ==
    (Ok(wape) /\ Ok(bias)) =>
        /\ Len(wape.rows) = Len(bias.rows)
        /\ \A i \in 1..Len(wape.rows) : \A m \in Range(models) :
              LET w == wape.rows[i][m]
                  b == bias.rows[i][m]
              IN  /\ ResultKey(wape, i) = ResultKey(bias, i)
                  /\ (w.tag = "num") <=> (b.tag = "num")
                  /\ (w = NaN) <=> (b = NaN)
                  /\ w.tag = "num" =>
                        AbsInt(b.n) * w.d <= AbsInt(w.n) * b.d

\* errors of both signs in one group: the BIAS cell is strictly smaller in
\* magnitude than the WAPE cell
C10_Witness ==
    /\ Ok(wape) /\ Ok(bias)
    /\ \E i \in 1..Len(wape.rows) : \E m \in Range(models) :
          LET w == wape.rows[i][m]
              b == bias.rows[i][m]
          IN  /\ w.tag = "num" /\ b.tag = "num"
              /\ AbsInt(b.n) * w.d < AbsInt(w.n) * b.d
              /\ b.n # 0

===========================================================================
